---- MODULE Spec2Model ----
(***************************************************************************)
(* Task-chain engine (TaskManager) and single-task execution of the agent  *)
(* (BaseAgent.executeTask), with the capability registry of PyrDevAgent.   *)
(*                                                                         *)
(* An executeTaskChain call is an async function: it runs synchronously up *)
(* to its first await and is resumed when the awaited promise settles.     *)
(* The steps of the model are the synchronous runs between two awaits:     *)
(*   ExecuteTaskChain    the call, up to the first `await executeTask`     *)
(*   CapabilitySettles   the capability's promise settles and the rest of  *)
(*                       executeTask runs (lines 53-57 or 58-62)           *)
(*   ExecuteTaskChainResume  the continuation of executeTaskChain after    *)
(*                       `await agent.executeTask(task)`, up to the next   *)
(*                       await or to the end of the call                   *)
(* and the synchronous operations createTaskChain, cancelTaskChain and     *)
(* deleteTaskChain.  The last two steps are two jobs of the promise job    *)
(* queue: the second is queued when the first ends, behind the jobs that   *)
(* are queued already, so that another job may run between them.           *)
(***************************************************************************)
EXTENDS Integers, Sequences, FiniteSets, TLC

\* ---------------------------------------------------------------- bounds
MaxTasks == 2        \* task descriptions given to createTaskChain
MaxCalls == 2        \* executeTaskChain calls made
MaxDispatches == 3   \* agent.executeTask invocations made by those calls
MaxTurns == 22       \* turns appended to the conversation since the last clear
MaxTime == 2         \* milliseconds that pass on the clock
MaxChanges == 3      \* change events of text documents
MaxClock == 2000     \* milliseconds on the clock of the timers

\* the chain ids the operations are called with: the id createTaskChain
\* generates, which is in the map only between its creation and its deletion
ChainIds == {1}
CallIds == 1..MaxCalls

\* ---------------------------------------------------------------- values
Undefined == "undefined"
ADate == "Date"

CancelledByUser == "Cancelled by user"
UnknownTaskType == "Unknown task type"
NoCodeProvided == "No code provided"
ProviderError == "Azure OpenAI Error"
NotFound == "Task chain not found"

\* ------------------------------------------------- strings as characters
UpperCase ==
  <<"A", "B", "C", "D", "E", "F", "G", "H", "I", "J", "K", "L", "M", "N",
    "O", "P", "Q", "R", "S", "T", "U", "V", "W", "X", "Y", "Z">>
LowerCase ==
  <<"a", "b", "c", "d", "e", "f", "g", "h", "i", "j", "k", "l", "m", "n",
    "o", "p", "q", "r", "s", "t", "u", "v", "w", "x", "y", "z">>

Lower ==
  [ch \in {UpperCase[n] : n \in DOMAIN UpperCase} |->
     LowerCase[CHOOSE n \in DOMAIN UpperCase : UpperCase[n] = ch]]

\* a bug: the description is matched as it is written
toLowerCaseNone(s) == s

toLowerCase(s) ==
  [k \in 1..Len(s) |-> IF s[k] \in DOMAIN Lower THEN Lower[s[k]] ELSE s[k]]

includes(s, sub) ==
  \E k \in 0..(Len(s) - Len(sub)) : SubSeq(s, k + 1, k + Len(sub)) = sub

KwAnalyze == <<"a", "n", "a", "l", "y", "z", "e">>
KwCheck == <<"c", "h", "e", "c", "k">>
KwReview == <<"r", "e", "v", "i", "e", "w">>
KwFix == <<"f", "i", "x">>
KwCorrect == <<"c", "o", "r", "r", "e", "c", "t">>
KwRepair == <<"r", "e", "p", "a", "i", "r">>
KwGenerate == <<"g", "e", "n", "e", "r", "a", "t", "e">>
KwCreate == <<"c", "r", "e", "a", "t", "e">>
KwWrite == <<"w", "r", "i", "t", "e">>
KwExplain == <<"e", "x", "p", "l", "a", "i", "n">>
KwDescribe == <<"d", "e", "s", "c", "r", "i", "b", "e">>
KwClarify == <<"c", "l", "a", "r", "i", "f", "y">>

\* a bug: the fix keywords are looked for before the analyze keywords
inferTaskTypeFixFirst(description) ==
  LET lowerDesc == toLowerCase(description) IN
  IF includes(lowerDesc, KwFix) \/ includes(lowerDesc, KwCorrect)
       \/ includes(lowerDesc, KwRepair) THEN "fix"
  ELSE IF includes(lowerDesc, KwAnalyze) \/ includes(lowerDesc, KwCheck)
       \/ includes(lowerDesc, KwReview) THEN "analyze"
  ELSE IF includes(lowerDesc, KwGenerate) \/ includes(lowerDesc, KwCreate)
       \/ includes(lowerDesc, KwWrite) THEN "generate"
  ELSE IF includes(lowerDesc, KwExplain) \/ includes(lowerDesc, KwDescribe)
       \/ includes(lowerDesc, KwClarify) THEN "explain"
  ELSE "general"

inferTaskType(description) ==
  LET lowerDesc == toLowerCase(description) IN
  IF includes(lowerDesc, KwAnalyze) \/ includes(lowerDesc, KwCheck)
       \/ includes(lowerDesc, KwReview) THEN "analyze"
  ELSE IF includes(lowerDesc, KwFix) \/ includes(lowerDesc, KwCorrect)
       \/ includes(lowerDesc, KwRepair) THEN "fix"
  ELSE IF includes(lowerDesc, KwGenerate) \/ includes(lowerDesc, KwCreate)
       \/ includes(lowerDesc, KwWrite) THEN "generate"
  ELSE IF includes(lowerDesc, KwExplain) \/ includes(lowerDesc, KwDescribe)
       \/ includes(lowerDesc, KwClarify) THEN "explain"
  ELSE "general"

\* ------------------------------------------------------ inputs of the model
DescAnalyze ==
  <<"A", "n", "a", "l", "y", "z", "e", " ", "t", "h", "e", " ", "c", "o", "d", "e">>
DescGeneral == <<"D", "o", " ", "s", "o", "m", "e", "t", "h", "i", "n", "g">>
Descriptions == {DescAnalyze, DescGeneral}

\* the descriptions of the two-task scenario
DescFix ==
  <<"F", "i", "x", " ", "t", "h", "e", " ", "c", "o", "d", "e">>
ScenarioDescriptions == {DescAnalyze, DescFix}

Names == {"demo"}

\* initialContext: undefined (the task gets {}) or a context with code
InitialContexts == {[code |-> Undefined], [code |-> "x=1"]}

DescriptionLists ==
  UNION {[1..n -> Descriptions] : n \in 0..MaxTasks}

\* ------------------------------------------- inputs of task-type inference
\* bound of the descriptions built from the vocabulary below
MaxWords == 2

DescReview ==
  <<"R", "e", "v", "i", "e", "w", " ", "t", "h", "i", "s", " ", "f", "u",
    "n", "c", "t", "i", "o", "n", " ", "f", "o", "r", " ", "b", "u", "g",
    "s">>
DescWrite ==
  <<"W", "r", "i", "t", "e", " ", "a", " ", "s", "o", "r", "t", "i", "n",
    "g", " ", "f", "u", "n", "c", "t", "i", "o", "n">>
DescRepair ==
  <<"R", "e", "p", "a", "i", "r", " ", "t", "h", "e", " ", "n", "u", "l",
    "l", " ", "c", "h", "e", "c", "k">>
DescDescribe ==
  <<"D", "e", "s", "c", "r", "i", "b", "e", " ", "w", "h", "a", "t", " ",
    "t", "h", "i", "s", " ", "d", "o", "e", "s">>
ExampleDescriptions == {DescReview, DescWrite, DescRepair, DescDescribe, DescGeneral}

\* a vocabulary: words that hold a keyword of a group (as they are, in other
\* case, inside a longer word) and words that hold none
InferWords ==
  {[text |-> <<"A", "n", "a", "l", "y", "z", "e">>,
    group |-> "analyze"],
   [text |-> <<"C", "H", "E", "C", "K">>,
    group |-> "analyze"],
   [text |-> <<"r", "e", "v", "i", "e", "w", "e", "d">>,
    group |-> "analyze"],
   [text |-> <<"f", "i", "x">>,
    group |-> "fix"],
   [text |-> <<"C", "o", "r", "r", "e", "c", "t">>,
    group |-> "fix"],
   [text |-> <<"R", "E", "P", "A", "I", "R", "S">>,
    group |-> "fix"],
   [text |-> <<"p", "r", "e", "f", "i", "x">>,
    group |-> "fix"],
   [text |-> <<"g", "e", "n", "e", "r", "a", "t", "e">>,
    group |-> "generate"],
   [text |-> <<"C", "r", "e", "a", "t", "e">>,
    group |-> "generate"],
   [text |-> <<"r", "e", "W", "R", "I", "T", "E">>,
    group |-> "generate"],
   [text |-> <<"e", "x", "p", "l", "a", "i", "n">>,
    group |-> "explain"],
   [text |-> <<"D", "e", "s", "c", "r", "i", "b", "e">>,
    group |-> "explain"],
   [text |-> <<"C", "L", "A", "R", "I", "F", "Y">>,
    group |-> "explain"],
   [text |-> <<"d", "o">>,
    group |-> "general"],
   [text |-> <<"I", "t">>,
    group |-> "general"]}

RECURSIVE Sentence(_)
Sentence(ws) ==
  IF Len(ws) = 0 THEN <<>>
  ELSE IF Len(ws) = 1 THEN ws[1].text
  ELSE ws[1].text \o <<" ">> \o Sentence(Tail(ws))

WordLists == UNION {[1..n -> InferWords] : n \in 1..MaxWords}

InferDescriptions == ExampleDescriptions \cup {Sentence(ws) : ws \in WordLists}

\* the opaque result of the capability call that call `e` issued for task i of
\* chain c: every call produces a result of its own
ResultOf(c, i, e) == [chain |-> c, task |-> i, call |-> e]
NoResult == [chain |-> 0, task |-> 0, call |-> 0]

Fulfilled(r) == [kind |-> "fulfilled", result |-> r, message |-> Undefined]
Rejected(m) == [kind |-> "rejected", result |-> NoResult, message |-> m]
Pending == [kind |-> "pending", result |-> NoResult, message |-> Undefined]

\* ------------------------------------------------------------------ state
VARIABLES
  taskChains,   \* TaskManager.taskChains: the ids that are keys of the map
  chain,        \* the TaskChain objects by id (an object outlives its map entry)
  activeTasks,  \* TaskManager.activeTasks: the task ids <<chain, index>> registered
  calls,        \* the executeTaskChain calls: position, locals and settlement
  inflight,     \* the capability calls issued and not yet settled
  invoked,      \* history: the tasks <<chain, index>> whose capability was invoked
  cancelled,    \* history: per chain, the results list, the calls made, the
                \* capability calls in flight and the tasks that were running
                \* (those the cancel marked) at its last successful cancel
  ret,          \* the last operation performed and what it returned
  sequence,     \* the executeChainedTasks call of the agent: its tasks,
                \* position, locals and settlement
  direct,       \* the single-task call of the agent (applyFixes, generateCode):
                \* its task, what the caller passed and what the capability got
  conversationHistory,  \* BaseAgent.conversationHistory
  appended,     \* history: the turns appended since the last clearConversation
  queries,      \* the processQuery calls: position and query
  now,          \* the clock, as Date.now() reads it (milliseconds)
  settings,     \* the "pyr-dev" configuration of the workspace
  picks,        \* the quick picks shown by the commands and not yet answered
  clock,        \* the time of the event loop (milliseconds)
  changes,      \* history: the change events of text documents, with their time
  timers,       \* the timers set by setTimeout and not yet fired
  analyses      \* history: the analyzeDocument calls made, with their time

\* the state of the task-chain engine, of the agent, and all of it
engineVars == <<taskChains, chain, activeTasks, calls, inflight, invoked, cancelled>>
agentVars == <<sequence, direct, conversationHistory, appended, queries>>
editorVars == <<clock, changes, timers, analyses>>
hostVars == <<settings, picks, editorVars>>
vars == <<taskChains, chain, activeTasks, calls, inflight, invoked, cancelled, ret,
          sequence, direct, conversationHistory, appended, queries, now,
          settings, picks, clock, changes, timers, analyses>>

NoChain ==
  [name |-> "", tasks |-> <<>>, status |-> "absent", createdAt |-> 0,
   completedAt |-> Undefined, results |-> <<>>]

\* pc: "idle" (not made), "awaitCapability" (inside executeTask, at line 52 of
\* baseAgent), "awaitTask" (executeTask has settled, executeTaskChain not yet
\* resumed at line 80), "resolved", "rejected"
NoCall ==
  [pc |-> "idle", chainId |-> 0, i |-> 0, results |-> <<>>, settled |-> Pending,
   dispatched |-> <<>>, message |-> Undefined]

\* the executeChainedTasks call, with the pc of an executeTaskChain call
NoSequence ==
  [pc |-> "idle", tasks |-> <<>>, results |-> <<>>, i |-> 0, settled |-> Pending,
   message |-> Undefined]

\* the second argument of executeTask and of capability.execute
NoParameters == [given |-> FALSE, issues |-> <<>>, description |-> Undefined]
Parameters(issues, description) ==
  [given |-> TRUE, issues |-> issues, description |-> description]

\* the applyFixes or generateCode call
NoDirect ==
  [pc |-> "idle", op |-> "none", type |-> "none", code |-> Undefined,
   passed |-> NoParameters, received |-> NoParameters, settled |-> Pending]

QueryIds == {1, 2}
NoQuery == [pc |-> "idle", query |-> 0]

\* a configuration in which nothing has been set
NoSettings ==
  [defaultProvider |-> Undefined, azureApiKey |-> Undefined,
   azureEndpoint |-> Undefined, geminiApiKey |-> Undefined]

\* the quick picks that can be open at once, and a quick pick not shown
PickIds == {1, 2}
NoPick == [pc |-> "idle", command |-> "none", items |-> {}, chainId |-> 0]

\* the state after construction, for the chain ids that createTaskChain
\* can generate
InitChains(ids) ==
  /\ sequence = NoSequence
  /\ direct = NoDirect
  /\ conversationHistory = <<>>
  /\ appended = <<>>
  /\ queries = [q \in QueryIds |-> NoQuery]
  /\ now = 0
  /\ settings = NoSettings
  /\ picks = [p \in PickIds |-> NoPick]
  /\ clock = 0
  /\ changes = <<>>
  /\ timers = {}
  /\ analyses = <<>>
  /\ taskChains = {}
  /\ chain = [c \in ids |-> NoChain]
  /\ activeTasks = {}
  /\ calls = [e \in CallIds |-> NoCall]
  /\ inflight = {}
  /\ invoked = {}
  /\ cancelled = [c \in ids |->
                   [done |-> FALSE, results |-> <<>>, calls |-> {}, inflight |-> {},
                    tasks |-> {}]]
  /\ ret = [op |-> "none", id |-> 0, value |-> FALSE]

Init == InitChains(ChainIds)

\* ------------------------------------------------------- createTaskChain
NewTask(description, initialContext) ==
  [type |-> inferTaskType(description),
   description |-> description,
   context |-> [code |-> initialContext.code, previousResults |-> 0],
   status |-> "pending",
   result |-> NoResult,
   error |-> Undefined,
   completedAt |-> Undefined]

\* a bug: the tasks are made in reverse order of the descriptions
NewTaskChainReversed(name, taskDescriptions, initialContext) ==
  [name |-> name,
   tasks |-> [k \in 1..Len(taskDescriptions) |->
                NewTask(taskDescriptions[Len(taskDescriptions) + 1 - k],
                        initialContext)],
   status |-> "pending",
   createdAt |-> now,
   completedAt |-> Undefined,
   results |-> <<>>]

NewTaskChain(name, taskDescriptions, initialContext) ==
  [name |-> name,
   tasks |-> [k \in 1..Len(taskDescriptions) |->
                NewTask(taskDescriptions[k], initialContext)],
   status |-> "pending",
   createdAt |-> now,
   completedAt |-> Undefined,
   results |-> <<>>]

\* chain ids are unique (time stamp and random suffix): an id is never reused
UnusedChainIds == {c \in DOMAIN chain : chain[c].status = "absent"}
FreshChainId == CHOOSE c \in UnusedChainIds : \A d \in UnusedChainIds : c <= d

CreateTaskChain(name, taskDescriptions, initialContext) ==
  /\ UnusedChainIds # {}
  /\ LET chainId == FreshChainId IN
       /\ chain' = [chain EXCEPT
                      ![chainId] = NewTaskChain(name, taskDescriptions, initialContext)]
       /\ taskChains' = taskChains \cup {chainId}
       /\ ret' = [op |-> "createTaskChain", id |-> chainId, value |-> TRUE,
                  name |-> name, taskDescriptions |-> taskDescriptions,
                  initialContext |-> initialContext]
  /\ UNCHANGED <<activeTasks, calls, inflight, invoked, cancelled, agentVars, now, hostVars>>

\* ------------------------------------------------- BaseAgent.executeTask
Capabilities == {"analyze", "fix", "generate", "explain", "chain"}

\* what the capability's promise can settle with
CapabilityOutcomes(task, c, i, e) ==
  IF task.type \in {"analyze", "fix", "explain"} /\ task.context.code \in {Undefined, ""}
  THEN {Rejected(NoCodeProvided)}
  ELSE {Fulfilled(ResultOf(c, i, e)), Rejected(ProviderError)}

\* a bug: the result is not kept on the task
executeTaskFulfilledNoResult(task, result) ==
  [task EXCEPT !.status = "completed", !.completedAt = ADate]

\* lines 53-55
executeTaskFulfilled(task, result) ==
  [task EXCEPT !.result = result, !.status = "completed", !.completedAt = ADate]

executeTaskRejected(task, message) ==
  [task EXCEPT !.status = "failed", !.error = message, !.completedAt = ADate]

\* a bug: the capability is not looked up, the task is left `running`
executeTaskBeginNoLookup(task) == [task EXCEPT !.status = "running"]

\* lines 44-50: the synchronous part of executeTask, up to the capability call
executeTaskBegin(task) ==
  LET running == [task EXCEPT !.status = "running"] IN
  IF task.type \in Capabilities
  THEN running
  ELSE executeTaskRejected(running, UnknownTaskType)

\* ------------------------------------------- TaskManager.executeTaskChain
IdleCalls == {e \in CallIds : calls[e].pc = "idle"}
NextCall == CHOOSE e \in IdleCalls : \A f \in IdleCalls : e <= f

\* a bug: the result is put in front of the list (unshift for push)
unshift(list, result) == <<result>> \o list

\* lines 81-82: results.push(result); chain.results.push(result)
push(list, result) == Append(list, result)

\* a bug: the context of the task is left as it was
withPreviousResultsNone(task, e) == task

\* lines 72-75: the context of the task gets the call's own `results` array
\* (by reference: previousResults names the call whose array it is)
withPreviousResults(task, e) ==
  [task EXCEPT !.context = [@ EXCEPT !.previousResults = e]]

\* lines 68-91 from index i on (tasks are numbered from 1 here), run until the
\* next await or the end of the call: ch is the chain object, call the locals.
\* Gives the chain object and the locals after the run, the task registered as
\* active and the capability call issued, if any.
Loop(e, c, i, ch, call) ==
  IF i > Len(ch.tasks)
  THEN [chain |-> [ch EXCEPT !.status = "completed", !.completedAt = ADate],
        call |-> [call EXCEPT !.pc = "resolved", !.i = i],
        active |-> {},
        issued |-> {}]
  ELSE LET task == executeTaskBegin(withPreviousResults(ch.tasks[i], e))
           known == ch.tasks[i].type \in Capabilities
       IN [chain |-> [ch EXCEPT !.tasks[i] = task],
           call |-> [call EXCEPT
                       !.pc = IF known THEN "awaitCapability" ELSE "awaitTask",
                       !.i = i,
                       !.settled = IF known THEN Pending
                                   ELSE Rejected(UnknownTaskType),
                       !.dispatched = Append(@, i)],
           active |-> {<<c, i>>},
           issued |-> IF known THEN {[call |-> e, chain |-> c, task |-> i]}
                      ELSE {}]

\* the agent.executeTask invocations made so far, and whether the run of the
\* loop from index i on makes one more (the model makes MaxDispatches at most)
RECURSIVE SumLen(_)
SumLen(S) ==
  IF S = {} THEN 0
  ELSE LET e == CHOOSE f \in S : TRUE
       IN Len(calls[e].dispatched) + SumLen(S \ {e})
Dispatches == SumLen(CallIds)
WithinBound(c, i) == i > Len(chain[c].tasks) \/ Dispatches < MaxDispatches

\* a bug: the status of the chain is not set when the call starts
statusLeftAtStart(ch) == ch

\* line 64: chain.status = "running"
statusRunning(ch) == [ch EXCEPT !.status = "running"]

\* a bug: the task stays in the registry
finallyKeep(active, id) == active

\* lines 83-85: finally { this.activeTasks.delete(task.id) }
finallyDelete(active, id) == active \ {id}

\* a bug: the chain object is looked for, not its key in the map, so that a
\* deleted chain is still found
chainNotFoundNeverCreated(chainId) == chain[chainId].status = "absent"

\* lines 59-60: const chain = this.taskChains.get(chainId); if (!chain)
chainNotFound(chainId) == chainId \notin taskChains

\* the call executeTaskChain(chainId, agent), up to its first await: what it
\* does to the task manager
executeTaskChainCall(chainId) ==
  /\ IdleCalls # {}
  /\ ~chainNotFound(chainId) => WithinBound(chainId, 1)
  /\ LET e == NextCall IN
       /\ ret' = [op |-> "executeTaskChain", id |-> chainId, value |-> e]
       /\ IF chainNotFound(chainId)
          THEN /\ calls' = [calls EXCEPT
                              ![e] = [NoCall EXCEPT !.pc = "rejected",
                                                    !.chainId = chainId,
                                                    !.message = NotFound]]
               /\ UNCHANGED <<chain, activeTasks, inflight, invoked>>
          ELSE LET r == Loop(e, chainId, 1,
                             statusRunning(chain[chainId]),
                             [NoCall EXCEPT !.chainId = chainId])
               IN /\ chain' = [chain EXCEPT ![chainId] = r.chain]
                  /\ calls' = [calls EXCEPT ![e] = r.call]
                  /\ activeTasks' = activeTasks \cup r.active
                  /\ inflight' = inflight \cup r.issued
                  /\ invoked' = invoked \cup {<<k.chain, k.task>> : k \in r.issued}
  /\ UNCHANGED <<taskChains, cancelled>>

ExecuteTaskChain(chainId) ==
  /\ executeTaskChainCall(chainId)
  /\ UNCHANGED <<agentVars, now, hostVars>>

\* the capability's promise settles and executeTask runs to its end
\* (baseAgent lines 53-57 on success, 58-62 on failure)
CapabilitySettles(k, outcome) ==
  /\ k \in inflight
  /\ outcome \in CapabilityOutcomes(chain[k.chain].tasks[k.task], k.chain, k.task, k.call)
  /\ inflight' = inflight \ {k}
  /\ chain' = [chain EXCEPT
                 ![k.chain].tasks[k.task] =
                    IF outcome.kind = "fulfilled"
                    THEN executeTaskFulfilled(@, outcome.result)
                    ELSE executeTaskRejected(@, outcome.message)]
  /\ calls' = [calls EXCEPT ![k.call].pc = "awaitTask", ![k.call].settled = outcome]
  /\ ret' = [op |-> "executeTask", id |-> k.chain, value |-> k.call]
  /\ UNCHANGED <<taskChains, activeTasks, invoked, cancelled, agentVars, now, hostVars>>

\* a bug: the task that succeeded is run again
sameTask(i) == i

\* line 68: i++
nextTask(i) == i + 1

\* a bug: the chain is left as it is when the call fails
chainFailedLeftRunning(ch) == ch

\* lines 93-94: chain.status = "failed"; chain.completedAt = new Date()
chainFailed(ch) == [ch EXCEPT !.status = "failed", !.completedAt = ADate]

\* executeTaskChain resumes after `await agent.executeTask(task)` (line 80)
ExecuteTaskChainResume(e) ==
  /\ calls[e].pc = "awaitTask"
  /\ calls[e].settled.kind = "fulfilled" => WithinBound(calls[e].chainId, calls[e].i + 1)
  /\ LET c == calls[e].chainId
         i == calls[e].i
         out == calls[e].settled
     IN /\ ret' = [op |-> "resume", id |-> c, value |-> e]
        /\ IF out.kind = "fulfilled"
           THEN LET r == Loop(e, c, nextTask(i),
                              [chain[c] EXCEPT !.results = push(@, out.result)],
                              [calls[e] EXCEPT !.results = push(@, out.result),
                                               !.settled = Pending])
                IN /\ chain' = [chain EXCEPT ![c] = r.chain]
                   /\ calls' = [calls EXCEPT ![e] = r.call]
                   /\ activeTasks' = finallyDelete(activeTasks, <<c, i>>) \cup r.active
                   /\ inflight' = inflight \cup r.issued
                   /\ invoked' = invoked \cup {<<k.chain, k.task>> : k \in r.issued}
           ELSE /\ chain' = [chain EXCEPT ![c] = chainFailed(@)]
                /\ calls' = [calls EXCEPT ![e].pc = "rejected",
                                          ![e].message = out.message]
                /\ activeTasks' = finallyDelete(activeTasks, <<c, i>>)
                /\ UNCHANGED <<inflight, invoked>>
  /\ UNCHANGED <<taskChains, cancelled, agentVars, now, hostVars>>

\* ------------------------------------------- TaskManager.cancelTaskChain
\* a bug: the status of the chain is not looked at
cancelRefusedUnknownOnly(chainId) == chainId \notin taskChains

\* line 117: the call is refused
cancelRefused(chainId) ==
  chainId \notin taskChains \/ chain[chainId].status # "running"

\* a bug: the running task is failed without the cancellation error
cancelTaskNoError(task) ==
  IF task.status = "running"
  THEN [task EXCEPT !.status = "failed", !.completedAt = ADate]
  ELSE task

\* lines 123-127
cancelTask(task) ==
  IF task.status = "running"
  THEN [task EXCEPT !.status = "failed", !.error = CancelledByUser,
                    !.completedAt = ADate]
  ELSE task

\* a bug: the results of the chain are thrown away by the cancellation
cancelChainClearResults(ch) ==
  [ch EXCEPT !.tasks = [k \in 1..Len(@) |-> cancelTask(@[k])],
             !.status = "failed",
             !.completedAt = ADate,
             !.results = <<>>]

\* lines 122-131: the running tasks, then the chain itself
cancelChain(ch) ==
  [ch EXCEPT !.tasks = [k \in 1..Len(@) |-> cancelTask(@[k])],
             !.status = "failed",
             !.completedAt = ADate]

\* the call cancelTaskChain(chainId): what it does to the task manager
cancelTaskChainCall(chainId) ==
  /\ IF cancelRefused(chainId)
     THEN /\ ret' = [op |-> "cancelTaskChain", id |-> chainId, value |-> FALSE]
          /\ UNCHANGED <<chain, cancelled>>
     ELSE /\ chain' = [chain EXCEPT ![chainId] = cancelChain(@)]
          /\ cancelled' = [cancelled EXCEPT
                             ![chainId] = [done |-> TRUE,
                                           results |-> chain[chainId].results,
                                           calls |-> CallIds \ IdleCalls,
                                           inflight |-> inflight,
                                           tasks |->
                                             {k \in 1..Len(chain[chainId].tasks) :
                                                chain[chainId].tasks[k].status
                                                  = "running"}]]
          /\ ret' = [op |-> "cancelTaskChain", id |-> chainId, value |-> TRUE]
  /\ UNCHANGED <<taskChains, activeTasks, calls, inflight, invoked>>

CancelTaskChain(chainId) ==
  /\ cancelTaskChainCall(chainId)
  /\ UNCHANGED <<agentVars, now, hostVars>>

\* ------------------------------------- TaskManager.pauseTask, resumeTask
\* taskId is <<chain, index>>; the registered object is the task of the chain
pauseTask(taskId) ==
  taskId \in activeTasks /\ chain[taskId[1]].tasks[taskId[2]].status = "running"

resumeTask(taskId) == taskId \in activeTasks

\* ------------------------------------------- TaskManager.deleteTaskChain
\* a bug: the key stays in the map
mapKeep(keys, key) == keys

\* Map.prototype.delete, on the keys of the map
mapDelete(keys, key) == keys \ {key}

DeleteTaskChain(chainId) ==
  /\ taskChains' = mapDelete(taskChains, chainId)
  /\ ret' = [op |-> "deleteTaskChain", id |-> chainId,
             value |-> (chainId \in taskChains)]
  /\ UNCHANGED <<chain, activeTasks, calls, inflight, invoked, cancelled, agentVars, now, hostVars>>

\* ---------------- PyrDevAgent.executeChainedTasks, BaseAgent.executeChainTasks
\* part_005 232-239: every task of the sequence has type "chain"
ChainedTask(description, initialContext) ==
  [type |-> "chain",
   description |-> description,
   context |-> [code |-> initialContext.code, previousResults |-> 0],
   status |-> "pending",
   result |-> NoResult,
   error |-> Undefined,
   completedAt |-> Undefined]

\* the result of the capability call for task i of the sequence
SequenceResult(i) == ResultOf(0, i, 0)

\* part_006 70-81 from index i on, until the next await or the end of the call
\* (previousResults 1 names the `results` array of the call)
SequenceLoop(seq, i) ==
  IF i > Len(seq.tasks)
  THEN [seq EXCEPT !.pc = "resolved", !.i = i]
  ELSE LET task == executeTaskBegin(withPreviousResults(seq.tasks[i], 1))
           known == seq.tasks[i].type \in Capabilities
       IN [seq EXCEPT !.tasks[i] = task,
                      !.pc = IF known THEN "awaitCapability" ELSE "awaitTask",
                      !.i = i,
                      !.settled = IF known THEN Pending
                                  ELSE Rejected(UnknownTaskType)]

ExecuteChainedTasks(taskDescriptions, initialContext) ==
  /\ sequence.pc = "idle"
  /\ sequence' =
       SequenceLoop([NoSequence EXCEPT
                       !.tasks = [k \in 1..Len(taskDescriptions) |->
                                    ChainedTask(taskDescriptions[k], initialContext)]],
                    1)
  /\ ret' = [op |-> "executeChainedTasks", id |-> 0, value |-> TRUE]
  /\ UNCHANGED <<engineVars, direct, conversationHistory, appended, queries, now, hostVars>>

\* the capability's promise settles and executeTask runs to its end
SequenceTaskSettles(outcome) ==
  /\ sequence.pc = "awaitCapability"
  /\ outcome \in CapabilityOutcomes(sequence.tasks[sequence.i], 0, sequence.i, 0)
  /\ sequence' = [sequence EXCEPT
                    !.tasks[sequence.i] =
                       IF outcome.kind = "fulfilled"
                       THEN executeTaskFulfilled(@, outcome.result)
                       ELSE executeTaskRejected(@, outcome.message),
                    !.pc = "awaitTask",
                    !.settled = outcome]
  /\ ret' = [op |-> "executeTask", id |-> 0, value |-> TRUE]
  /\ UNCHANGED <<engineVars, direct, conversationHistory, appended, queries, now, hostVars>>

\* executeChainTasks resumes after `await this.executeTask(task)` (line 74)
ExecuteChainTasksResume ==
  /\ sequence.pc = "awaitTask"
  /\ sequence' =
       IF sequence.settled.kind = "fulfilled"
       THEN SequenceLoop([sequence EXCEPT
                            !.results = push(@, sequence.settled.result),
                            !.settled = Pending],
                         sequence.i + 1)
       ELSE [sequence EXCEPT !.pc = "rejected",
                             !.message = sequence.settled.message]
  /\ ret' = [op |-> "resumeSequence", id |-> 0, value |-> TRUE]
  /\ UNCHANGED <<engineVars, direct, conversationHistory, appended, queries, now, hostVars>>

\* ------------------------------ PyrDevAgent.applyFixes, generateCode
\* part_005 181: `${issue.severity}: ${issue.message} (Line ${issue.line})`
IssueDescription(issue) ==
  <<issue.severity, ":", " ", issue.message, " ", "(", "Line", " ", issue.line, ")">>

IssueA == [severity |-> "error", message |-> "Undefined name y", line |-> "3"]
IssueB == [severity |-> "warning", message |-> "Unused import", line |-> "12"]
IssueLists == {<<>>, <<IssueA>>, <<IssueA, IssueB>>, <<IssueB, IssueA>>}
Codes == {"", "x=1"}
CodeDescriptions == {"a stack", "a queue"}

\* part_006 43 and 52: executeTask(task) has no second parameter and calls
\* capability.execute(task.context): what the caller passed after the task
\* does not reach the capability
executeArguments(passed) == NoParameters

\* the single-task call up to its await: executeTask(task, parameters)
SingleTask(op, type, code, parameters) ==
  [pc |-> "awaitCapability", op |-> op, type |-> type, code |-> code,
   passed |-> parameters, received |-> executeArguments(parameters),
   settled |-> Pending]

ApplyFixes(code, issues) ==
  /\ direct.pc = "idle"
  /\ LET issueDescriptions == [k \in 1..Len(issues) |-> IssueDescription(issues[k])]
     IN direct' = SingleTask("applyFixes", "fix", code,
                             Parameters(issueDescriptions, Undefined))
  /\ ret' = [op |-> "applyFixes", id |-> 0, value |-> TRUE]
  /\ UNCHANGED <<engineVars, sequence, conversationHistory, appended, queries, now, hostVars>>

GenerateCode(description) ==
  /\ direct.pc = "idle"
  /\ direct' = SingleTask("generateCode", "generate", Undefined,
                          Parameters(<<>>, description))
  /\ ret' = [op |-> "generateCode", id |-> 0, value |-> TRUE]
  /\ UNCHANGED <<engineVars, sequence, conversationHistory, appended, queries, now, hostVars>>

SingleTaskSettles(outcome) ==
  /\ direct.pc = "awaitCapability"
  /\ outcome \in CapabilityOutcomes([type |-> direct.type,
                                      context |-> [code |-> direct.code]], 0, 1, 0)
  /\ direct' = [direct EXCEPT
                  !.pc = IF outcome.kind = "fulfilled" THEN "resolved" ELSE "rejected",
                  !.settled = outcome]
  /\ ret' = [op |-> "executeTask", id |-> 0, value |-> FALSE]
  /\ UNCHANGED <<engineVars, sequence, conversationHistory, appended, queries, now, hostVars>>

\* ------------------------------------------- the conversation history
\* part_006 88-89: the history keeps its last 20 messages
MaxHistory == 20

Turn(role, content) == [role |-> role, content |-> content]

\* what is said: the query of processQuery call q, the provider's answer to
\* it, or the n-th turn since the last clear, appended by addToConversation
QueryOf(q) == [text |-> "query", of |-> q]
AnswerTo(q) == [text |-> "answer", of |-> q]
Note(n) == [text |-> "note", of |-> n]

\* a bug: the first n messages are kept (slice(0, n) for slice(-n))
sliceFirst(list, n) == SubSeq(list, 1, IF Len(list) > n THEN n ELSE Len(list))

\* Array.prototype.slice(-n): the last n elements, all of them if there are fewer
sliceLast(list, n) ==
  SubSeq(list, IF Len(list) > n THEN Len(list) - n + 1 ELSE 1, Len(list))

\* part_006 84-91, on the history given
addToConversation(history, role, content) ==
  LET pushed == Append(history, Turn(role, content))
  IN IF Len(pushed) > MaxHistory THEN sliceLast(pushed, MaxHistory) ELSE pushed

AddToConversation(role, content) ==
  /\ Len(appended) < MaxTurns
  /\ conversationHistory' = addToConversation(conversationHistory, role, content)
  /\ appended' = Append(appended, Turn(role, content))
  /\ ret' = [op |-> "addToConversation", id |-> 0, value |-> TRUE]
  /\ UNCHANGED <<engineVars, sequence, direct, queries, now, hostVars>>

ClearConversation ==
  /\ conversationHistory' = <<>>
  /\ appended' = <<>>
  /\ ret' = [op |-> "clearConversation", id |-> 0, value |-> TRUE]
  /\ UNCHANGED <<engineVars, sequence, direct, queries, now, hostVars>>

\* processQuery up to its await (part_005 141-156)
ProcessQuery(q) ==
  /\ queries[q].pc = "idle"
  /\ \A p \in QueryIds : p < q => queries[p].pc # "idle"
  /\ Len(appended) < MaxTurns
  /\ conversationHistory' = addToConversation(conversationHistory, "user", QueryOf(q))
  /\ appended' = Append(appended, Turn("user", QueryOf(q)))
  /\ queries' = [queries EXCEPT ![q] = [pc |-> "awaitProvider", query |-> q]]
  /\ ret' = [op |-> "processQuery", id |-> 0, value |-> q]
  /\ UNCHANGED <<engineVars, sequence, direct, now, hostVars>>

\* generateResponse settles and processQuery runs to its end (157-159), or
\* rejects with the provider's error
ProviderAnswers(q, outcome) ==
  /\ queries[q].pc = "awaitProvider"
  /\ IF outcome.kind = "fulfilled"
     THEN /\ Len(appended) < MaxTurns
          /\ conversationHistory' =
               addToConversation(conversationHistory, "assistant", AnswerTo(q))
          /\ appended' = Append(appended, Turn("assistant", AnswerTo(q)))
          /\ queries' = [queries EXCEPT ![q].pc = "resolved"]
     ELSE /\ queries' = [queries EXCEPT ![q].pc = "rejected"]
          /\ UNCHANGED <<conversationHistory, appended>>
  /\ ret' = [op |-> "answer", id |-> 0, value |-> q]
  /\ UNCHANGED <<engineVars, sequence, direct, now, hostVars>>

\* ------------------------------------------------------------ the clock
\* a millisecond passes
Tick ==
  /\ now < MaxTime
  /\ now' = now + 1
  /\ ret' = [op |-> "tick", id |-> 0, value |-> TRUE]
  /\ UNCHANGED <<engineVars, agentVars, hostVars>>

\* line 99-101, as a test: is the chain in the map
getTaskChainFound(chainId) == chainId \in taskChains

\* ------------------------------------------------------ the providers
\* the values a setting can have: not set, the empty string, some text
ProviderNames == {Undefined, "azure", "gemini", "openai"}
SettingTexts == {Undefined, "", "text"}
SettingValues(key) ==
  IF key = "defaultProvider" THEN ProviderNames ELSE SettingTexts

\* JavaScript truthiness of a string setting
Truthy(x) == x \notin {Undefined, ""}

\* config.get(key, defaultValue)
configGet(value, defaultValue) ==
  IF value = Undefined THEN defaultValue ELSE value

azureIsConfigured ==
  Truthy(settings.azureApiKey) /\ Truthy(settings.azureEndpoint)

geminiIsConfigured == Truthy(settings.geminiApiKey)

isConfigured(provider) ==
  IF provider = "azure" THEN azureIsConfigured ELSE geminiIsConfigured

Returned(provider) == [kind |-> "returned", provider |-> provider]
NoProviderConfigured == [kind |-> "thrown", provider |-> Undefined]

\* a bug: Azure is always tried first, whatever the setting says
getActiveProviderAzureFirst ==
  IF azureIsConfigured THEN Returned("azure")
  ELSE IF geminiIsConfigured THEN Returned("gemini")
  ELSE NoProviderConfigured

getActiveProvider ==
  LET defaultProvider == configGet(settings.defaultProvider, "azure") IN
  IF defaultProvider = "gemini"
  THEN IF geminiIsConfigured THEN Returned("gemini")
       ELSE IF azureIsConfigured THEN Returned("azure")
       ELSE NoProviderConfigured
  ELSE IF azureIsConfigured THEN Returned("azure")
       ELSE IF geminiIsConfigured THEN Returned("gemini")
       ELSE NoProviderConfigured

\* the user changes one setting of the configuration
UpdateSetting(key, value) ==
  /\ settings[key] # value
  /\ settings' = [settings EXCEPT ![key] = value]
  /\ ret' = [op |-> "updateSetting", id |-> 0, value |-> TRUE]
  /\ UNCHANGED <<engineVars, agentVars, now, picks, editorVars>>

GetActiveProvider ==
  /\ ret' = [op |-> "getActiveProvider", id |-> 0, value |-> getActiveProvider]
  /\ UNCHANGED <<engineVars, agentVars, now, hostVars>>

Configure ==
  \E key \in DOMAIN NoSettings : \E value \in SettingValues(key) :
    UpdateSetting(key, value)

NextProvider == Configure \/ GetActiveProvider

SpecProvider == Init /\ [][NextProvider]_vars

\* ----------------------------------------- the commands of the extension
IdlePicks == {p \in PickIds : picks[p].pc = "idle"}
NextPick == CHOOSE p \in IdlePicks : \A q \in IdlePicks : p <= q

\* part_000 464-503, up to the first await: the chain is looked up and
\* taskManager.executeTaskChain is called
executeTaskChainById(chainId) ==
  IF getTaskChainFound(chainId)
  THEN executeTaskChainCall(chainId)
  ELSE /\ ret' = [op |-> "executeTaskChainById", id |-> chainId, value |-> FALSE]
       /\ UNCHANGED engineVars

\* part_000 622-630
cancelTaskChainById(chainId) == cancelTaskChainCall(chainId)

\* part_000 440-457: the command "pyr-dev.executeTaskChain" up to its await:
\* the pending chains are offered in a quick pick
ExecuteCommand ==
  /\ IdlePicks # {}
  /\ LET taskChainsPending == {c \in taskChains : chain[c].status = "pending"} IN
     IF taskChainsPending = {}
     THEN /\ ret' = [op |-> "executeCommand", id |-> 0, value |-> FALSE]
          /\ UNCHANGED picks
     ELSE /\ picks' = [picks EXCEPT
                         ![NextPick] = [pc |-> "open", command |-> "execute",
                                        items |-> taskChainsPending,
                                        chainId |-> 0]]
          /\ ret' = [op |-> "showQuickPick", id |-> 0, value |-> NextPick]
  /\ UNCHANGED <<engineVars, agentVars, now, settings, editorVars>>

\* part_000 459-461: the quick pick of the command is answered with one of
\* its items, or dismissed (selected = 0)
ExecuteCommandPicked(p, selected) ==
  /\ picks[p].pc = "open"
  /\ picks[p].command = "execute"
  /\ selected \in picks[p].items \cup {0}
  /\ picks' = [picks EXCEPT ![p] = NoPick]
  /\ IF selected # 0
     THEN executeTaskChainById(selected)
     ELSE /\ ret' = [op |-> "dismissed", id |-> 0, value |-> p]
          /\ UNCHANGED engineVars
  /\ UNCHANGED <<agentVars, now, settings, editorVars>>

\* part_000 524-528, 547-556: a chain picked in the list of all chains is
\* still in the map, and its actions are offered in a quick pick; "Cancel"
\* is among them when the chain is running then
ShowTaskChainDetails(chainId) ==
  /\ IdlePicks # {}
  /\ getTaskChainFound(chainId)
  /\ picks' = [picks EXCEPT
                 ![NextPick] = [pc |-> "open", command |-> "details",
                                items |-> {"Execute"} \cup
                                          IF chain[chainId].status = "running"
                                          THEN {"Cancel"} ELSE {},
                                chainId |-> chainId]]
  /\ ret' = [op |-> "showQuickPick", id |-> chainId, value |-> NextPick]
  /\ UNCHANGED <<engineVars, agentVars, now, settings, editorVars>>

\* part_000 558-568: the action picked for the chain, or none
DetailsPicked(p, action) ==
  /\ picks[p].pc = "open"
  /\ picks[p].command = "details"
  /\ action \in picks[p].items \cup {Undefined}
  /\ picks' = [picks EXCEPT ![p] = NoPick]
  /\ LET c == picks[p].chainId IN
     IF action = "Execute" /\ chain[c].status = "pending"
     THEN executeTaskChainById(c)
     ELSE IF action = "Cancel"
     THEN cancelTaskChainById(c)
     ELSE /\ ret' = [op |-> "dismissed", id |-> c, value |-> p]
          /\ UNCHANGED engineVars
  /\ UNCHANGED <<agentVars, now, settings, editorVars>>

\* ------------------------------- the analysis of a document that changed
\* part_000 235: the delay of the timer, in milliseconds
DebounceDelay == 1000

\* the text documents that change: a file, and a document that is no file
Documents ==
  {[name |-> "a.ts", scheme |-> "file"], [name |-> "Untitled-1", scheme |-> "untitled"]}

\* the steps in which time passes
TimeSteps == {500, 1000}

\* part_000 230-237: the handler of onDidChangeTextDocument: for a file
\* document a timer is set whose callback analyses the document
DidChangeTextDocument(document) ==
  /\ Len(changes) < MaxChanges
  /\ changes' = Append(changes, [document |-> document, at |-> clock])
  /\ timers' = IF document.scheme = "file"
               THEN timers \cup {[document |-> document,
                                  due |-> clock + DebounceDelay,
                                  change |-> Len(changes) + 1]}
               ELSE timers
  /\ ret' = [op |-> "didChangeTextDocument", id |-> 0, value |-> document.name]
  /\ UNCHANGED <<engineVars, agentVars, now, settings, picks, clock, analyses>>

\* part_000 233-235: a timer that is due fires, and its callback calls
\* realTimeProvider.analyzeDocument(event.document); the earliest timer first
TimerFires(timer) ==
  /\ timer \in timers
  /\ timer.due <= clock
  /\ \A other \in timers :
       other.due > timer.due \/ (other.due = timer.due /\ other.change >= timer.change)
  /\ timers' = timers \ {timer}
  /\ analyses' = Append(analyses, [document |-> timer.document, at |-> clock,
                                   change |-> timer.change])
  /\ ret' = [op |-> "analyzeDocument", id |-> 0, value |-> timer.document.name]
  /\ UNCHANGED <<engineVars, agentVars, now, settings, picks, clock, changes>>

\* time passes, up to the moment the next timer is due
TimePasses(step) ==
  /\ clock + step <= MaxClock
  /\ \A timer \in timers : timer.due >= clock + step
  /\ clock' = clock + step
  /\ ret' = [op |-> "timePasses", id |-> 0, value |-> step]
  /\ UNCHANGED <<engineVars, agentVars, now, settings, picks, changes, timers,
                 analyses>>

Change == \E document \in Documents : DidChangeTextDocument(document)

Fire == \E timer \in timers : TimerFires(timer)

Wait == \E step \in TimeSteps : TimePasses(step)

NextEditor == Change \/ Fire \/ Wait

SpecEditor == Init /\ [][NextEditor]_vars

\* ------------------------------------------------- the queries on chains
\* line 99-101: the chain object, or undefined (NoChain)
getTaskChain(chainId) == IF chainId \in taskChains THEN chain[chainId] ELSE NoChain

\* Array.from(this.taskChains.values()): the chains of the map in the order
\* they were put in, which is the order of their ids; then
\* sort((a, b) => b.createdAt - a.createdAt): by decreasing createdAt, chains
\* of equal createdAt staying in the order they had (the sort is stable).
\* The place of chain c in the list:
PlaceOf(c) ==
  1 + Cardinality({d \in taskChains :
                     \/ chain[d].createdAt > chain[c].createdAt
                     \/ chain[d].createdAt = chain[c].createdAt /\ d < c})

\* lines 103-105: the list of the chains (by id)
getAllTaskChains ==
  [k \in 1..Cardinality(taskChains) |-> CHOOSE c \in taskChains : PlaceOf(c) = k]

\* Array.prototype.filter on a list of chains, by status
RECURSIVE filterStatus(_, _)
filterStatus(list, status) ==
  IF list = <<>> THEN <<>>
  ELSE IF chain[Head(list)].status = status
       THEN <<Head(list)>> \o filterStatus(Tail(list), status)
       ELSE filterStatus(Tail(list), status)

\* lines 107-113
getActiveTaskChains == filterStatus(getAllTaskChains, "running")
getCompletedTaskChains == filterStatus(getAllTaskChains, "completed")

\* lines 140-156
getTaskChainStats ==
  LET chains == getAllTaskChains IN
  [total |-> Len(chains),
   pending |-> Len(filterStatus(chains, "pending")),
   running |-> Len(filterStatus(chains, "running")),
   completed |-> Len(filterStatus(chains, "completed")),
   failed |-> Len(filterStatus(chains, "failed"))]

\* -------------------------------------------- TaskManager.getTaskProgress
\* a JavaScript number that is a quotient of two counts: num/den, or NaN
Number(num, den) == [nan |-> FALSE, num |-> num, den |-> den]
NaN == [nan |-> TRUE, num |-> 0, den |-> 0]

\* the `/` of JavaScript on two counts: 0/0 is NaN
Divide(n, d) == IF d = 0 /\ n = 0 THEN NaN ELSE Number(n, d)

getTaskProgress(chainId) ==
  IF chainId \notin taskChains
  THEN Number(0, 1)
  ELSE LET completedTasks ==
             Cardinality({k \in 1..Len(chain[chainId].tasks) :
                            chain[chainId].tasks[k].status = "completed"})
       IN Divide(completedTasks, Len(chain[chainId].tasks))

\* ------------------------------------------------------- specification
Create ==
  \E name \in Names, taskDescriptions \in DescriptionLists,
     initialContext \in InitialContexts :
    CreateTaskChain(name, taskDescriptions, initialContext)

Execute == \E chainId \in ChainIds : ExecuteTaskChain(chainId)

Settle ==
  \E k \in inflight :
    \E outcome \in CapabilityOutcomes(chain[k.chain].tasks[k.task],
                                      k.chain, k.task, k.call) :
      CapabilitySettles(k, outcome)

Resume == \E e \in CallIds : ExecuteTaskChainResume(e)

Cancel == \E chainId \in ChainIds : CancelTaskChain(chainId)

Delete == \E chainId \in ChainIds : DeleteTaskChain(chainId)

Next == Create \/ Execute \/ Settle \/ Resume \/ Cancel \/ Delete

Spec == Init /\ [][Next]_vars

\* chains of one task created from the descriptions of task-type inference
CreateInferred ==
  \E name \in Names, description \in InferDescriptions,
     initialContext \in InitialContexts :
    CreateTaskChain(name, <<description>>, initialContext)

SpecInfer == Init /\ [][CreateInferred]_vars

\* chains of the two-task scenario, executed without cancel or delete
CreateScenario ==
  \E name \in Names, initialContext \in InitialContexts :
    \E taskDescriptions \in UNION {[1..n -> ScenarioDescriptions] : n \in 0..MaxTasks} :
      CreateTaskChain(name, taskDescriptions, initialContext)

NextScenario == CreateScenario \/ Execute \/ Settle \/ Resume

SpecScenario == Init /\ [][NextScenario]_vars

\* chains of any name, the empty one too, created and executed
AnyNames == {"", "demo"}

CreateNamed ==
  \E name \in AnyNames, taskDescriptions \in DescriptionLists,
     initialContext \in InitialContexts :
    CreateTaskChain(name, taskDescriptions, initialContext)

NextCreate == CreateNamed \/ Execute \/ Settle \/ Resume

SpecCreate == Init /\ [][NextCreate]_vars

\* two chains, created at times the clock gives, executed and deleted
ListChainIds == {1, 2}
ListDescriptionLists == {<<>>, <<DescAnalyze>>, <<DescGeneral>>}

CreateListed ==
  \E name \in Names, taskDescriptions \in ListDescriptionLists :
    CreateTaskChain(name, taskDescriptions, [code |-> "x=1"])

ExecuteListed == \E chainId \in ListChainIds : ExecuteTaskChain(chainId)

DeleteListed == \E chainId \in ListChainIds : DeleteTaskChain(chainId)

NextList ==
  Tick \/ CreateListed \/ ExecuteListed \/ Settle \/ Resume \/ DeleteListed

SpecList == InitChains(ListChainIds) /\ [][NextList]_vars

\* the agent used without the task-chain engine
StartSequence ==
  \E taskDescriptions \in DescriptionLists, initialContext \in InitialContexts :
    ExecuteChainedTasks(taskDescriptions, initialContext)

SettleSequence ==
  \E outcome \in {Fulfilled(SequenceResult(sequence.i)), Rejected(ProviderError)} :
    SequenceTaskSettles(outcome)

StartFixes == \E code \in Codes, issues \in IssueLists : ApplyFixes(code, issues)

StartGenerate == \E description \in CodeDescriptions : GenerateCode(description)

SettleSingle ==
  \E outcome \in {Fulfilled(ResultOf(0, 1, 0)), Rejected(ProviderError),
                   Rejected(NoCodeProvided)} :
    SingleTaskSettles(outcome)

NextAgent ==
  \/ StartSequence \/ SettleSequence \/ ExecuteChainTasksResume
  \/ StartFixes \/ StartGenerate \/ SettleSingle

SpecAgent == Init /\ [][NextAgent]_vars

\* the conversation of the agent
Say == AddToConversation("user", Note(Len(appended) + 1))

Ask == \E q \in QueryIds : ProcessQuery(q)

Answer ==
  \E q \in QueryIds, outcome \in {Fulfilled(NoResult), Rejected(ProviderError)} :
    ProviderAnswers(q, outcome)

NextConversation == Say \/ Ask \/ Answer \/ ClearConversation

SpecConversation == Init /\ [][NextConversation]_vars

\* ------------------------------------------------------------ properties
Terminal(status) == status \in {"completed", "failed"}

TaskIndexes(c) == 1..Len(chain[c].tasks)

CompletedTasks(c) == {k \in TaskIndexes(c) : chain[c].tasks[k].status = "completed"}

\* the last successful cancel of c came while a capability call of c was in
\* flight, and no executeTaskChain call was made since
CancelledInFlight(c) ==
  /\ cancelled[c].done
  /\ \E k \in cancelled[c].inflight : k.chain = c
  /\ CallIds \ IdleCalls = cancelled[c].calls

\* C1: after cancelTaskChain(c) has returned true the status of c is `failed`
\* in every later state: when the capability call that was in flight at the
\* cancel resolves, the executeTaskChain loop that issued it does not set the
\* status back to `running` or `completed`.
C1_CancelledChainStaysFailed ==
  \A c \in ChainIds : CancelledInFlight(c) => chain[c].status = "failed"

\* C2: when cancelTaskChain(c) returns true while a capability call of c is in
\* flight, the late result of that call is discarded: c.results stays the list
\* it was at the cancel.
C2_LateResultDiscarded ==
  \A c \in ChainIds :
    CancelledInFlight(c) => chain[c].results = cancelled[c].results

\* C3: once the status of a chain is `completed` or `failed`, no step changes
\* the status of any of its tasks.
C3_TasksFrozenOnceTerminal ==
  [][\A c \in ChainIds :
       Terminal(chain[c].status)
         => \A k \in TaskIndexes(c) :
              chain'[c].tasks[k].status = chain[c].tasks[k].status]_vars

\* C4: in every state chain.results is no longer than the number of tasks of
\* the chain whose status is `completed`.
C4_ResultsAtMostCompleted ==
  \A c \in ChainIds : Len(chain[c].results) <= Cardinality(CompletedTasks(c))

\* the step in which call e rejects because the task it executed failed
RejectsOnTask(e) ==
  /\ calls[e].pc = "awaitTask"
  /\ calls'[e].pc = "rejected"

\* C5: when executeTaskChain rejects because task k failed, the chain is
\* `failed` with completedAt set, the tasks before k are `completed`, task k is
\* `failed` with a non-empty error, the tasks after k are `pending` and their
\* capability was never invoked, and the caller receives the error of task k.
C5_StateAtRejection ==
  [][\A e \in CallIds :
       RejectsOnTask(e) =>
         LET c == calls[e].chainId
             k == calls[e].i
             tasks == chain'[c].tasks
         IN /\ chain'[c].status = "failed"
            /\ chain'[c].completedAt # Undefined
            /\ \A j \in 1..(k - 1) : tasks[j].status = "completed"
            /\ tasks[k].status = "failed"
            /\ tasks[k].error \notin {Undefined, ""}
            /\ \A j \in (k + 1)..Len(tasks) :
                 tasks[j].status = "pending" /\ <<c, j>> \notin invoked'
            /\ calls'[e].message = tasks[k].error]_vars

\* the step in which call e resolves
Resolves(e) ==
  /\ calls[e].pc # "resolved"
  /\ calls'[e].pc = "resolved"

\* C6: when executeTaskChain resolves, the chain is `completed` with
\* completedAt set, chain.results has one entry per task, entry i is the result
\* of task i, and the sequence returned equals chain.results.
C6_StateAtResolution ==
  [][\A e \in CallIds :
       Resolves(e) =>
         LET c == calls'[e].chainId
             ch == chain'[c]
         IN /\ ch.status = "completed"
            /\ ch.completedAt # Undefined
            /\ Len(ch.results) = Len(ch.tasks)
            /\ \A j \in 1..Len(ch.tasks) : ch.results[j] = ch.tasks[j].result
            /\ calls'[e].results = ch.results]_vars

\* C7: at most one capability call issued for a chain is outstanding.
C7_OneOutstandingCallPerChain ==
  \A c \in ChainIds : Cardinality({k \in inflight : k.chain = c}) <= 1

\* C8: within one executeTaskChain call the tasks are dispatched in index
\* order, a task is dispatched only when the capability calls of the tasks
\* before it have settled, and the results the call collects (and returns) are
\* those of its own capability calls, in task order.
C8_SequentialInOrder ==
  \A e \in CallIds :
    LET call == calls[e]
        mine == {k \in inflight : k.call = e}
    IN /\ \A j \in 1..Len(call.dispatched) : call.dispatched[j] = j
       /\ \A k \in mine : k.task = Len(call.dispatched) /\ call.pc = "awaitCapability"
       /\ Cardinality(mine) <= 1
       /\ Len(call.results) <= Len(call.dispatched)
       /\ Len(call.dispatched) <= Len(call.results) + 1
       /\ \A j \in 1..Len(call.results) :
            call.results[j] = ResultOf(call.chainId, j, e)
       /\ call.pc = "resolved" =>
            Len(call.results) = Len(chain[call.chainId].tasks)

C8_Witness ==
  \E e \in CallIds :
    /\ calls[e].pc = "resolved"
    /\ Len(calls[e].results) = 2
    /\ calls[e].dispatched = <<1, 2>>

\* C9: cancelTaskChain on a chain whose status is `running` returns true, and
\* right after it the chain is `failed` with completedAt set and every task
\* that was `running` is `failed` with error "Cancelled by user" and
\* completedAt set.
C9_CancelRunningChain ==
  [][\A c \in ChainIds :
       (/\ ret'.op = "cancelTaskChain"
        /\ ret'.id = c
        /\ c \in taskChains
        /\ chain[c].status = "running")
       => /\ ret'.value = TRUE
          /\ chain'[c].status = "failed"
          /\ chain'[c].completedAt # Undefined
          /\ \A k \in TaskIndexes(c) :
               chain[c].tasks[k].status = "running"
                 => /\ chain'[c].tasks[k].status = "failed"
                    /\ chain'[c].tasks[k].error = "Cancelled by user"
                    /\ chain'[c].tasks[k].completedAt # Undefined]_vars

C9_Witness ==
  /\ ret.op = "cancelTaskChain"
  /\ ret.value = TRUE
  /\ chain[ret.id].status = "failed"
  /\ \E k \in TaskIndexes(ret.id) :
       /\ chain[ret.id].tasks[k].status = "failed"
       /\ chain[ret.id].tasks[k].error = "Cancelled by user"
       /\ [call |-> 1, chain |-> ret.id, task |-> k] \in inflight

\* C10: cancelTaskChain on an id that is not in the chain map, or on a chain
\* whose status is `pending`, `completed` or `failed`, returns false and leaves
\* the chain map, the chains with their tasks and the active-task registry as
\* they were.
C10_RefusedCancelChangesNothing ==
  [][\A c \in ChainIds :
       (/\ ret'.op = "cancelTaskChain"
        /\ ret'.id = c
        /\ \/ c \notin taskChains
           \/ chain[c].status \in {"pending", "completed", "failed"})
       => /\ ret'.value = FALSE
          /\ UNCHANGED <<taskChains, chain, activeTasks>>]_vars

C10_Witness ==
  /\ ret.op = "cancelTaskChain"
  /\ ret.value = FALSE
  /\ ret.id \in taskChains
  /\ chain[ret.id].status = "pending"
  /\ chain[ret.id].tasks # <<>>

\* C11: a task that cancelTaskChain marked failed keeps "Cancelled by user" as
\* its error in every later state, also when the capability call that was in
\* flight for it at the cancel later rejects or resolves.
C11_CancelledTaskKeepsSentinel ==
  \A c \in ChainIds :
    CancelledInFlight(c) =>
      \A k \in cancelled[c].tasks : chain[c].tasks[k].error = CancelledByUser

\* C12: executeTaskChain with an id that is not in the chain map rejects with
\* the not-found error, invokes no capability of the agent and leaves every
\* chain, every task and the active-task registry as they were.
C12_UnknownChainRejected ==
  [][\A c \in ChainIds :
       (/\ ret'.op = "executeTaskChain"
        /\ ret'.id = c
        /\ c \notin taskChains)
       => /\ calls'[ret'.value].pc = "rejected"
          /\ calls'[ret'.value].message = NotFound
          /\ calls'[ret'.value].dispatched = <<>>
          /\ UNCHANGED <<taskChains, chain, activeTasks, inflight, invoked>>]_vars

\* the call was made on a chain that had been executed and then deleted
C12_Witness ==
  /\ ret.op = "executeTaskChain"
  /\ ret.id \notin taskChains
  /\ calls[ret.value].pc = "rejected"
  /\ calls[ret.value].message = NotFound
  /\ chain[ret.id].status = "completed"
  /\ chain[ret.id].tasks # <<>>

\* the calls made on chain c that found it in the map
CallsOn(c) ==
  {e \in CallIds : calls[e].pc # "idle" /\ calls[e].chainId = c
                     /\ calls[e].message # NotFound}

\* C13: an executeTaskChain call on a chain of the map sets the status of the
\* chain to `running` before it modifies the context or the status of a task,
\* registers a task as active or invokes a capability.  The call runs from
\* its start to its first await without interruption, so what can be seen of
\* this order is: a chain that is still `pending` has no call, no task
\* touched, registered or invoked; and right after the start of a call the
\* chain is `running` (`completed` when it has no task).
C13_RunningBeforeTasks ==
  \A c \in ChainIds :
    /\ chain[c].status = "pending" =>
         /\ CallsOn(c) = {}
         /\ \A k \in TaskIndexes(c) :
              /\ chain[c].tasks[k].status = "pending"
              /\ chain[c].tasks[k].context.previousResults = 0
              /\ <<c, k>> \notin activeTasks
              /\ <<c, k>> \notin invoked
    /\ (ret.op = "executeTaskChain" /\ ret.id = c /\ ret.value \in CallsOn(c)) =>
         chain[c].status = IF chain[c].tasks = <<>> THEN "completed" ELSE "running"

\* a second call has just started on a chain that had failed
C13_Witness ==
  /\ ret.op = "executeTaskChain"
  /\ ret.value = 2
  /\ calls[1].pc = "rejected"
  /\ calls[1].dispatched # <<>>
  /\ chain[ret.id].status = "running"
  /\ chain[ret.id].tasks[1].status = "running"
  /\ chain[ret.id].tasks[1].context.previousResults = 2
  /\ <<ret.id, 1>> \in activeTasks
  /\ [call |-> 2, chain |-> ret.id, task |-> 1] \in inflight

\* C14: a task leaves the active-task registry when the executeTaskChain call
\* that awaits its executeTask resumes, on success and on failure: the
\* registry holds only tasks that a call is still waiting for, so that it
\* holds no task of a chain none of whose calls is executing.
C14_RegistryCleanedUp ==
  \A c \in ChainIds :
    LET executing == {e \in CallsOn(c) :
                        calls[e].pc \in {"awaitCapability", "awaitTask"}}
    IN /\ \A k \in TaskIndexes(c) :
            <<c, k>> \in activeTasks => \E e \in executing : calls[e].i = k
       /\ executing = {} => \A t \in activeTasks : t[1] # c

\* a call has just rejected on its second task, another call had rejected on
\* the first
C14_Witness ==
  /\ ret.op = "resume"
  /\ calls[ret.value].pc = "rejected"
  /\ calls[ret.value].dispatched = <<1, 2>>
  /\ \E e \in CallIds : calls[e].pc = "rejected" /\ calls[e].dispatched = <<1>>
  /\ activeTasks = {}

\* C15: for every chain of the map getTaskProgress is a number between 0 and 1
\* equal to the number of completed tasks over the number of tasks, and it is
\* 0 for a chain created with an empty task list.
C15_ProgressInUnitInterval ==
  \A c \in taskChains :
    LET p == getTaskProgress(c) IN
      /\ ~p.nan
      /\ p.den > 0
      /\ 0 <= p.num /\ p.num <= p.den
      /\ p.num * Len(chain[c].tasks) = Cardinality(CompletedTasks(c)) * p.den
      /\ chain[c].tasks = <<>> => p.num = 0

\* C16: completedAt of a task is set exactly when the status of the task is
\* `completed` or `failed`, also when the chain is executed again.
C16_CompletedAtIffTerminal ==
  \A c \in ChainIds : \A k \in TaskIndexes(c) :
    chain[c].tasks[k].completedAt # Undefined
      <=> Terminal(chain[c].tasks[k].status)

\* the changes of a status that a step may show: the three edges, and
\* pending to a terminal status when the step passed through `running`
\* (a task without capability fails, a chain without tasks completes, in the
\* run that set it `running`); "absent" is a chain not yet created
AllowedChange(old, new) ==
  \/ old = new
  \/ old = "absent" /\ new = "pending"
  \/ old = "pending" /\ new \in {"running", "completed", "failed"}
  \/ old = "running" /\ new \in {"completed", "failed"}

\* C17: the status of a task and of a chain changes only along
\* pending -> running, running -> completed and running -> failed: nothing
\* leaves a terminal status and nothing goes back to `pending`.
C17_StatusEdges ==
  [][\A c \in ChainIds :
       /\ AllowedChange(chain[c].status, chain'[c].status)
       /\ \A k \in TaskIndexes(c) :
            chain[c].status # "absent" =>
              AllowedChange(chain[c].tasks[k].status, chain'[c].tasks[k].status)]_vars

\* every task created with description d has type t
Inferred(d, t) ==
  \A c \in ChainIds : \A k \in TaskIndexes(c) :
    chain[c].tasks[k].description = d => chain[c].tasks[k].type = t

\* C18 as stated: at chain creation "Review this function for bugs" gets type
\* analyze, "Write a sorting function" generate, "Repair the null check" fix,
\* "Describe what this does" explain and "Do something" general.
C18_ExamplesAsStated ==
  /\ Inferred(DescReview, "analyze")
  /\ Inferred(DescWrite, "generate")
  /\ Inferred(DescRepair, "fix")
  /\ Inferred(DescDescribe, "explain")
  /\ Inferred(DescGeneral, "general")

\* C18 amended: the same, but "Repair the null check" gets type analyze: it
\* holds "check", and the analyze keywords are looked for first.
C18_ExamplesAsInferred ==
  /\ Inferred(DescReview, "analyze")
  /\ Inferred(DescWrite, "generate")
  /\ Inferred(DescRepair, "analyze")
  /\ Inferred(DescDescribe, "explain")
  /\ Inferred(DescGeneral, "general")

C18_Witness ==
  \E c \in taskChains :
    /\ chain[c].tasks # <<>>
    /\ chain[c].tasks[1].description = DescRepair
    /\ chain[c].tasks[1].type = "analyze"

\* the words of a description, which single spaces separate
RECURSIVE Split(_)
Split(s) ==
  IF \A n \in 1..Len(s) : s[n] # " " THEN <<s>>
  ELSE LET n == CHOOSE m \in 1..Len(s) :
                  s[m] = " " /\ \A j \in 1..(m - 1) : s[j] # " "
       IN <<SubSeq(s, 1, n - 1)>> \o Split(SubSeq(s, n + 1, Len(s)))

WordTexts == {w.text : w \in InferWords}
GroupOf(text) == (CHOOSE w \in InferWords : w.text = text).group

\* the type of the group of highest priority among the groups
HighestPriority(groups) ==
  IF "analyze" \in groups THEN "analyze"
  ELSE IF "fix" \in groups THEN "fix"
  ELSE IF "generate" \in groups THEN "generate"
  ELSE IF "explain" \in groups THEN "explain"
  ELSE "general"

\* C19: the type inferred for a description is that of the keyword group of
\* highest priority (analyze, fix, generate, explain, in this order) of which
\* the description holds a keyword, in any case and inside longer words, and
\* general when it holds none.
C19_PriorityMatch ==
  \A c \in ChainIds : \A k \in TaskIndexes(c) :
    LET ws == Split(chain[c].tasks[k].description) IN
      (\A n \in 1..Len(ws) : ws[n] \in WordTexts) =>
        chain[c].tasks[k].type
          = HighestPriority({GroupOf(ws[n]) : n \in 1..Len(ws)})

\* "explain CHECK": keywords of two groups, the one of higher priority last
\* and in capitals
C19_Witness ==
  \E c \in taskChains :
    /\ chain[c].tasks # <<>>
    /\ chain[c].tasks[1].description
         = <<"e", "x", "p", "l", "a", "i", "n", " ", "C", "H", "E", "C", "K">>
    /\ chain[c].tasks[1].type = "analyze"

\* C20: a task whose type has no capability (every `general` task, with the
\* five capabilities of PyrDevAgent) never has a capability invoked and is
\* `pending` or, once dispatched, `failed` with the unknown-type error; the
\* call that dispatched it rejects with that error and is never resumed past
\* it; the tasks after it stay `pending`; right after the call rejects the
\* chain is `failed`.
C20_UnknownCapabilityAborts ==
  \A c \in ChainIds : \A k \in TaskIndexes(c) :
    LET task == chain[c].tasks[k] IN
    task.type \notin Capabilities =>
      /\ <<c, k>> \notin invoked
      /\ \A f \in inflight : ~(f.chain = c /\ f.task = k)
      /\ task.status \in {"pending", "failed"}
      /\ task.status = "failed" =>
           task.error = UnknownTaskType /\ task.completedAt # Undefined
      /\ \A j \in (k + 1)..Len(chain[c].tasks) :
           chain[c].tasks[j].status = "pending"
      /\ \A e \in CallsOn(c) :
           Len(calls[e].dispatched) >= k =>
             /\ calls[e].i = k
             /\ task.status = "failed"
             /\ calls[e].pc \in {"awaitTask", "rejected"}
             /\ calls[e].pc = "awaitTask" =>
                  calls[e].settled = Rejected(UnknownTaskType)
             /\ calls[e].pc = "rejected" => calls[e].message = UnknownTaskType
      /\ (/\ ret.op = "resume"
          /\ ret.id = c
          /\ calls[ret.value].i = k
          /\ calls[ret.value].pc = "rejected") => chain[c].status = "failed"

\* the call has just rejected on a first task of type general
C20_Witness ==
  /\ ret.op = "resume"
  /\ calls[ret.value].pc = "rejected"
  /\ calls[ret.value].message = UnknownTaskType
  /\ calls[ret.value].dispatched = <<1>>
  /\ Len(chain[ret.id].tasks) = 2
  /\ chain[ret.id].tasks[1].type = "general"
  /\ chain[ret.id].tasks[1].status = "failed"
  /\ chain[ret.id].tasks[2].status = "pending"
  /\ chain[ret.id].status = "failed"

\* the list that context.previousResults of a task refers to: the `results`
\* array of the call that dispatched it last
PreviousResults(task) == calls[task.context.previousResults].results

\* the state is the one right after call e dispatched a task
JustDispatched(e) ==
  /\ ret.op \in {"executeTaskChain", "resume"}
  /\ ret.value = e
  /\ calls[e].pc \in {"awaitCapability", "awaitTask"}

\* C21: when a call dispatches task i, context.previousResults of task i
\* equals chain.results, also when the chain holds results of an earlier
\* execution.
C21_PreviousResultsAreChainResults ==
  \A e \in CallIds :
    JustDispatched(e) =>
      LET c == calls[e].chainId
          i == calls[e].i
      IN /\ chain[c].tasks[i].context.previousResults = e
         /\ PreviousResults(chain[c].tasks[i]) = chain[c].results

\* a status changes along one of the three edges, or not at all
Edge(old, new) ==
  \/ old = new
  \/ old = "pending" /\ new = "running"
  \/ old = "running" /\ new \in {"completed", "failed"}

\* what holds of the executeChainTasks call in a state
SequenceInOrder ==
  LET i == sequence.i
      tasks == sequence.tasks
      results == sequence.results
  IN sequence.pc # "idle" =>
       \* the results collected are those of the tasks before i, in order
       /\ \A j \in 1..Len(results) :
            results[j] = tasks[j].result /\ results[j] = SequenceResult(j)
       /\ \A j \in 1..Len(tasks) :
            /\ j < i => tasks[j].status = "completed"
            /\ j > i => tasks[j].status = "pending"
            /\ j <= i => tasks[j].context.previousResults = 1
       \* right after task i was dispatched the list has the i - 1 results
       /\ (/\ ret.op \in {"executeChainedTasks", "resumeSequence"}
           /\ sequence.pc \in {"awaitCapability", "awaitTask"})
          => Len(results) = i - 1 /\ tasks[i].status = "running"
       \* the first failure ends the call
       /\ sequence.pc = "rejected" =>
            /\ tasks[i].status = "failed"
            /\ sequence.message = tasks[i].error
            /\ Len(results) = i - 1
       /\ sequence.pc = "resolved" =>
            Len(results) = Len(tasks) /\ i = Len(tasks) + 1

\* C22: in executeChainTasks, when task i is dispatched its
\* context.previousResults is the list of the results of the tasks before it,
\* in order; the status of a task goes pending -> running -> completed or
\* failed; the first task that fails ends the call and the tasks after it
\* stay `pending`.
C22_SequenceRunner ==
  [][/\ SequenceInOrder'
     /\ sequence.pc # "idle" =>
          \A j \in 1..Len(sequence.tasks) :
            Edge(sequence.tasks[j].status, sequence'.tasks[j].status)]_vars

\* the second task has just been dispatched
C22_Witness ==
  /\ ret.op = "resumeSequence"
  /\ sequence.pc = "awaitCapability"
  /\ sequence.i = 2
  /\ sequence.results = <<SequenceResult(1)>>
  /\ sequence.tasks[2].context.previousResults = 1

\* C25: the parameters that applyFixes and generateCode pass to single-task
\* execution reach the capability: `fix` gets the list of issue descriptions
\* built from the issues given, one per issue, and `generate` gets the
\* caller's description.
C25_ParametersReachCapability ==
  direct.pc # "idle" =>
    /\ direct.op = "applyFixes" =>
         \E issues \in IssueLists :
           direct.passed.issues
             = [k \in 1..Len(issues) |-> IssueDescription(issues[k])]
    /\ direct.op = "generateCode" => direct.passed.description \in CodeDescriptions
    /\ direct.received.issues = direct.passed.issues
    /\ direct.received.description = direct.passed.description

\* C23: the conversation history has at most 20 entries and is the last
\* min(n, 20) of the n turns appended since the last clearConversation, in the
\* order they were appended; right after clearConversation it is empty.
C23_HistoryIsLastTwenty ==
  LET n == Len(appended)
      m == IF n < 20 THEN n ELSE 20
  IN /\ Len(conversationHistory) <= 20
     /\ conversationHistory = [k \in 1..m |-> appended[n - m + k]]
     /\ ret.op = "clearConversation" => conversationHistory = <<>>

\* 22 turns since the last clear, two of them of a processQuery call
C23_Witness ==
  /\ Len(appended) = 22
  /\ Len(conversationHistory) = 20
  /\ conversationHistory[1] = appended[3]
  /\ conversationHistory[20] = Turn("assistant", AnswerTo(1))
  /\ \E k \in 3..21 : appended[k] = Turn("user", QueryOf(1))

\* C24: a processQuery call that resolves has appended two turns, its query
\* and then the answer, and the answer comes right after the query also when
\* other processQuery calls are in flight.  Stated of the state right after
\* call q resolved, when the turns since its query (still in the history of
\* appends, no clear since) are all turns of processQuery calls.
C24_AnswerFollowsQuery ==
  \A q \in QueryIds :
    (ret.op = "answer" /\ ret.value = q /\ queries[q].pc = "resolved") =>
      LET n == Len(appended) IN
      /\ n >= 1
      /\ appended[n] = Turn("assistant", AnswerTo(q))
      /\ \A k \in 1..n :
           (/\ appended[k] = Turn("user", QueryOf(q))
            /\ \A j \in (k + 1)..n : appended[j].content.text # "note")
           => k = n - 1

\* C26: within one executeTaskChain call the capability of a task is invoked
\* at most once: a call never dispatches a task it has dispatched before,
\* dispatches nothing in the step in which it learns that a task failed, and
\* does nothing once it has resolved or rejected.
C26_NoRetry ==
  [][\A e \in CallIds :
       LET before == calls[e].dispatched
           after == calls'[e].dispatched
       IN /\ \A k \in inflight' \ inflight :
               k.call = e => \A j \in 1..Len(before) : before[j] # k.task
          /\ after # before =>
               /\ Len(after) = Len(before) + 1
               /\ SubSeq(after, 1, Len(before)) = before
               /\ \A j \in 1..Len(before) : before[j] # after[Len(after)]
          /\ (calls[e].pc = "awaitTask" /\ calls[e].settled.kind = "rejected") =>
               /\ after = before
               /\ \A k \in inflight' \ inflight : k.call # e
          /\ calls[e].pc \in {"resolved", "rejected"} =>
               /\ calls'[e] = calls[e]
               /\ \A k \in inflight' \ inflight : k.call # e]_vars

\* a call has rejected after a failed capability call on its second task
C26_Witness ==
  \E e \in CallIds :
    /\ calls[e].pc = "rejected"
    /\ calls[e].message = ProviderError
    /\ calls[e].dispatched = <<1, 2>>
    /\ chain[calls[e].chainId].tasks[2].status = "failed"

\* chain c is the chain of the scenario and e the only call made on it
Scenario(c, e) ==
  /\ chain[c].status # "absent"
  /\ chain[c].name = "demo"
  /\ Len(chain[c].tasks) = 2
  /\ chain[c].tasks[1].description = DescAnalyze
  /\ chain[c].tasks[2].description = DescFix
  /\ chain[c].tasks[1].context.code = "x=1"
  /\ CallsOn(c) = {e}

\* C27: for the chain created from "Analyze the code" and "Fix the code"
\* with code "x=1", a call dispatches task 1 as analyze and then task 2 as
\* fix; when task 2 is dispatched its previousResults is the one-element list
\* with the result of task 1; the call fails only if the provider does;
\* when it resolves it returns two results, chain.results has two entries and
\* the chain is `completed`.
C27_AnalyzeThenFix ==
  \A c \in ChainIds : \A e \in CallIds :
    Scenario(c, e) =>
      LET tasks == chain[c].tasks
          call == calls[e]
      IN /\ tasks[1].type = "analyze"
         /\ tasks[2].type = "fix"
         /\ call.dispatched \in {<<1>>, <<1, 2>>}
         /\ (JustDispatched(e) /\ call.i = 2) =>
              /\ tasks[1].status = "completed"
              /\ tasks[1].result = ResultOf(c, 1, e)
              /\ tasks[2].context.code = "x=1"
              /\ PreviousResults(tasks[2]) = <<tasks[1].result>>
         /\ call.pc = "rejected" => call.message = ProviderError
         /\ call.pc = "awaitTask" =>
              call.settled.kind = "fulfilled" \/ call.settled.message = ProviderError
         /\ call.pc = "resolved" =>
              /\ Len(call.results) = 2
              /\ call.results = <<ResultOf(c, 1, e), ResultOf(c, 2, e)>>
              /\ chain[c].results = call.results
              /\ chain[c].status = "completed"

C27_Witness ==
  \E c \in ChainIds : \E e \in CallIds :
    /\ Scenario(c, e)
    /\ calls[e].pc = "resolved"
    /\ Len(chain[c].results) = 2
    /\ chain[c].status = "completed"

\* C28: createTaskChain succeeds for every name and description list, the
\* empty ones too; the chain it returns is in the map, `pending`, without
\* results or completedAt, with one `pending` task per description, in the
\* order of the descriptions, each with the initial context and without
\* result, error or completedAt; an executeTaskChain call on a chain without
\* tasks resolves with no results and leaves the chain `completed`.
C28_CreatedChain ==
  /\ UnusedChainIds # {} =>
       \A name \in AnyNames, taskDescriptions \in DescriptionLists,
          initialContext \in InitialContexts :
         ENABLED CreateTaskChain(name, taskDescriptions, initialContext)
  /\ ret.op = "createTaskChain" =>
       LET ch == chain[ret.id] IN
       /\ ret.id \in taskChains
       /\ ch.name = ret.name
       /\ ch.status = "pending"
       /\ ch.results = <<>>
       /\ ch.completedAt = Undefined
       /\ Len(ch.tasks) = Len(ret.taskDescriptions)
       /\ \A k \in 1..Len(ch.tasks) :
            /\ ch.tasks[k].description = ret.taskDescriptions[k]
            /\ ch.tasks[k].status = "pending"
            /\ ch.tasks[k].context.code = ret.initialContext.code
            /\ ch.tasks[k].context.previousResults = 0
            /\ ch.tasks[k].result = NoResult
            /\ ch.tasks[k].error = Undefined
            /\ ch.tasks[k].completedAt = Undefined
  /\ \A c \in ChainIds :
       (/\ ret.op = "executeTaskChain"
        /\ ret.id = c
        /\ ret.value \in CallsOn(c)
        /\ chain[c].tasks = <<>>)
       => /\ calls[ret.value].pc = "resolved"
          /\ calls[ret.value].results = <<>>
          /\ chain[c].results = <<>>
          /\ chain[c].status = "completed"

\* a chain with the empty name and two different descriptions was created
C28_Witness ==
  /\ ret.op = "createTaskChain"
  /\ ret.name = ""
  /\ ret.initialContext.code = Undefined
  /\ Len(chain[ret.id].tasks) = 2
  /\ chain[ret.id].tasks[1].description = DescGeneral
  /\ chain[ret.id].tasks[2].description = DescAnalyze

InList(c, list) == \E k \in 1..Len(list) : list[k] = c

\* chain c is in no result of a query
NotListed(c) ==
  /\ getTaskChain(c) = NoChain
  /\ ~InList(c, getAllTaskChains)
  /\ ~InList(c, getActiveTaskChains)
  /\ ~InList(c, getCompletedTaskChains)
  /\ getTaskChainStats.total = Cardinality(taskChains \ {c})
  /\ getTaskChainStats.total
       = getTaskChainStats.pending + getTaskChainStats.running
           + getTaskChainStats.completed + getTaskChainStats.failed

\* C29: deleteTaskChain(c) returns true exactly when c was in the map; after
\* it, and in every later state, getTaskChain(c) is undefined and c is in no
\* list and in no count, also when a call on c was in flight at the deletion
\* and runs on afterwards; no other operation takes a chain out of the map.
C29_DeletedForGood ==
  [][\A c \in ChainIds :
       /\ (ret'.op = "deleteTaskChain" /\ ret'.id = c) =>
            /\ ret'.value = (c \in taskChains)
            /\ c \notin taskChains'
            /\ NotListed(c)'
       /\ (c \in taskChains /\ c \notin taskChains') =>
            ret'.op = "deleteTaskChain" /\ ret'.id = c
       /\ (chain[c].status # "absent" /\ c \notin taskChains) =>
            c \notin taskChains' /\ NotListed(c)']_vars

\* a call that was in flight when its chain was deleted has just resolved
C29_Witness ==
  /\ ret.op = "resume"
  /\ ret.id \notin taskChains
  /\ calls[ret.value].pc = "resolved"
  /\ calls[ret.value].dispatched # <<>>
  /\ chain[ret.id].status = "completed"
  /\ \A e \in CallIds : e # ret.value => calls[e].pc = "idle"

IndexOf(c, list) == CHOOSE k \in 1..Len(list) : list[k] = c

\* list holds exactly the chains of S, each once, in the order of `all`
SameOrder(list, S, all) ==
  /\ Len(list) = Cardinality(S)
  /\ \A c \in S : InList(c, list)
  /\ \A k \in 1..Len(list) : list[k] \in S
  /\ \A c, d \in S :
       IndexOf(c, list) < IndexOf(d, list) <=> IndexOf(c, all) < IndexOf(d, all)

\* C30: getAllTaskChains holds every chain of the map once, a chain created
\* later (ids are given in the order of creation) before a chain created
\* earlier; getActiveTaskChains and getCompletedTaskChains hold exactly the
\* chains that are `running`, or `completed`, in that order.
C30_MostRecentFirst ==
  LET all == getAllTaskChains IN
  /\ Len(all) = Cardinality(taskChains)
  /\ \A c \in taskChains : InList(c, all)
  /\ \A c, d \in taskChains : c < d => IndexOf(d, all) < IndexOf(c, all)
  /\ SameOrder(getActiveTaskChains,
               {c \in taskChains : chain[c].status = "running"}, all)
  /\ SameOrder(getCompletedTaskChains,
               {c \in taskChains : chain[c].status = "completed"}, all)

\* the provider that the defaultProvider setting names ("azure" when the
\* setting is not set), if it names one
NamedProvider == configGet(settings.defaultProvider, "azure")
OtherProvider(provider) == IF provider = "azure" THEN "gemini" ELSE "azure"

\* C31: right after getActiveProvider, it has thrown exactly when neither
\* provider is configured; a returned provider is configured; it is the
\* provider the defaultProvider setting names when that one is configured,
\* and the other provider when only the other one is configured.
C31_ActiveProvider ==
  ret.op = "getActiveProvider" =>
    /\ ret.value.kind = "thrown" <=> ~azureIsConfigured /\ ~geminiIsConfigured
    /\ ret.value.kind = "returned" => isConfigured(ret.value.provider)
    /\ \A named \in {"azure", "gemini"} :
         NamedProvider = named =>
           /\ isConfigured(named) => ret.value = Returned(named)
           /\ ~isConfigured(named) /\ isConfigured(OtherProvider(named)) =>
                ret.value = Returned(OtherProvider(named))

C31_Witness ==
  /\ ret.op = "getActiveProvider"
  /\ settings.defaultProvider = "gemini"
  /\ ~geminiIsConfigured
  /\ azureIsConfigured
  /\ ret.value = Returned("azure")

\* the tasks that the last successful cancelTaskChain of chain c marked failed
\* and that still carry that mark
MarkedCancelled(c) ==
  {<<c, i>> : i \in {k \in cancelled[c].tasks :
                      /\ chain[c].tasks[k].status = "failed"
                      /\ chain[c].tasks[k].error = CancelledByUser}}

\* C32: every task in the active-task registry has status `running` and its
\* chain has status `running`; for a task that cancelTaskChain marked failed
\* pauseTask and resumeTask give false.
C32_ActiveTasksAreRunning ==
  /\ \A t \in activeTasks :
       /\ chain[t[1]].tasks[t[2]].status = "running"
       /\ chain[t[1]].status = "running"
  /\ \A c \in DOMAIN chain : \A t \in MarkedCancelled(c) :
       ~pauseTask(t) /\ ~resumeTask(t)

\* two chains, each executed once, with their capability calls settling in
\* any interleaving, and cancelled at any moment
TwoDescriptionLists == {<<DescAnalyze>>, <<DescAnalyze, DescFix>>}

CreateTwo ==
  \E name \in Names, taskDescriptions \in TwoDescriptionLists,
     initialContext \in InitialContexts :
    CreateTaskChain(name, taskDescriptions, initialContext)

ExecuteOnce ==
  \E chainId \in ListChainIds :
    CallsOn(chainId) = {} /\ ExecuteTaskChain(chainId)

CancelListed == \E chainId \in ListChainIds : CancelTaskChain(chainId)

NextTwo == CreateTwo \/ ExecuteOnce \/ Settle \/ Resume \/ CancelListed

SpecTwo == InitChains(ListChainIds) /\ [][NextTwo]_vars

\* what cancelTaskChain may not change of a task
Kept(task) ==
  [status |-> task.status, result |-> task.result, error |-> task.error,
   completedAt |-> task.completedAt]

\* C33: a cancelTaskChain step leaves the status, result, error and
\* completedAt of every task that was not `running`, the results list of the
\* chain, the active-task registry and every other chain as they were.
C33_CancelFrame ==
  [][ret'.op = "cancelTaskChain" =>
       /\ \A c \in DOMAIN chain :
            /\ Len(chain'[c].tasks) = Len(chain[c].tasks)
            /\ \A k \in TaskIndexes(c) :
                 chain[c].tasks[k].status # "running" =>
                   Kept(chain'[c].tasks[k]) = Kept(chain[c].tasks[k])
            /\ chain'[c].results = chain[c].results
            /\ c # ret'.id => chain'[c] = chain[c]
       /\ activeTasks' = activeTasks
       /\ taskChains' = taskChains]_vars

\* a cancel that succeeded on a chain with a completed task, a running task
\* and a result, while the other chain was running
C33_Witness ==
  /\ ret.op = "cancelTaskChain"
  /\ ret.value = TRUE
  /\ Len(chain[ret.id].results) = 1
  /\ chain[ret.id].tasks[1].status = "completed"
  /\ chain[ret.id].tasks[2].error = CancelledByUser
  /\ <<ret.id, 2>> \in activeTasks
  /\ \E d \in taskChains : d # ret.id /\ chain[d].status = "running"

\* the results list of chain c holds results of tasks of c only, in the order
\* of the tasks
OwnResultsInOrder(c) ==
  LET results == chain[c].results IN
  /\ \A k \in 1..Len(results) :
       results[k].chain = c /\ results[k].task \in TaskIndexes(c)
  /\ \A j, k \in 1..Len(results) : j < k => results[j].task < results[k].task

\* C34: with two chains executed concurrently, each once, and their calls
\* settling in any interleaving, each chain's results list always holds
\* results of its own tasks only, in its own task order, and a step of one
\* chain (its execution, the settling of its call, its failure, its
\* cancellation) leaves the other chain (status, results, tasks) unchanged.
C34_ChainsAreIndependent ==
  [][/\ \A c \in taskChains : OwnResultsInOrder(c)'
     /\ \A c \in DOMAIN chain :
          ret'.op # "createTaskChain" /\ ret'.id # c => chain'[c] = chain[c]]_vars

\* both chains have a capability call in flight, the first chain already
\* has the result of its first task, and the call of the second chain, which
\* was started later, is the one that settled last
C34_Witness ==
  /\ Len(chain[1].results) = 1
  /\ \E k \in inflight : k.chain = 1 /\ k.task = 2
  /\ chain[2].status = "running"
  /\ calls[2].chainId = 2
  /\ calls[2].pc = "awaitTask"
  /\ ret.op = "executeTask"
  /\ ret.id = 2

\* the commands of the extension on one chain: it is created, offered by the
\* execute command and by the details of the chain, and its calls settle
CommandDescriptionLists == {<<DescAnalyze>>}

CreateForCommands ==
  \E name \in Names, taskDescriptions \in CommandDescriptionLists,
     initialContext \in InitialContexts :
    CreateTaskChain(name, taskDescriptions, initialContext)

PickExecute ==
  \E p \in PickIds : \E selected \in ChainIds \cup {0} :
    ExecuteCommandPicked(p, selected)

ShowDetails == \E chainId \in ChainIds : ShowTaskChainDetails(chainId)

PickDetails ==
  \E p \in PickIds : \E action \in {"Execute", "Cancel", Undefined} :
    DetailsPicked(p, action)

NextCommands ==
  \/ CreateForCommands
  \/ ExecuteCommand
  \/ PickExecute
  \/ ShowDetails
  \/ PickDetails
  \/ Settle
  \/ Resume

SpecCommands == Init /\ [][NextCommands]_vars

\* the executeTaskChain calls on chain c that have not settled
InFlightOn(c) ==
  {e \in CallIds : /\ calls[e].pc \in {"awaitCapability", "awaitTask"}
                   /\ calls[e].chainId = c}

\* C35: through the commands, executeTaskChain starts only on a chain whose
\* status is `pending` at that moment, and no chain ever has two
\* executeTaskChain calls in flight.
C35_NeverExecutedTwice ==
  [][/\ \A e \in CallIds :
          calls[e].pc = "idle" /\ calls'[e].pc # "idle"
            => chain[calls'[e].chainId].status = "pending"
     /\ \A c \in DOMAIN chain : Cardinality(InFlightOn(c)') <= 1]_vars

\* the executeTaskChain calls that have started and not settled
InFlightCalls == {e \in CallIds : calls[e].pc \in {"awaitCapability", "awaitTask"}}

\* the tasks that the calls in S have still to dispatch
RECURSIVE Remaining(_)
Remaining(S) ==
  IF S = {} THEN 0
  ELSE LET e == CHOOSE f \in S : TRUE
       IN (Len(chain[calls[e].chainId].tasks) - calls[e].i) + Remaining(S \ {e})

\* a call is started only when the calls in flight and the new one can
\* dispatch all their tasks within MaxDispatches
ExecuteWithinBudget ==
  \E chainId \in ChainIds :
    /\ ~chainNotFound(chainId) =>
         Dispatches + Remaining(InFlightCalls) + Len(chain[chainId].tasks)
           <= MaxDispatches
    /\ ExecuteTaskChain(chainId)

\* the capability call that call e of executeTaskChain waits for settles
SettleCall(e) ==
  \E k \in inflight :
    /\ k.call = e
    /\ \E outcome \in CapabilityOutcomes(chain[k.chain].tasks[k.task],
                                         k.chain, k.task, k.call) :
         CapabilitySettles(k, outcome)

\* chains of no task, of a task of unknown type, and of two tasks
LiveDescriptionLists == {<<>>, <<DescGeneral>>, <<DescAnalyze, DescFix>>}

CreateLive ==
  \E name \in Names, taskDescriptions \in LiveDescriptionLists,
     initialContext \in InitialContexts :
    CreateTaskChain(name, taskDescriptions, initialContext)

NextLive ==
  CreateLive \/ ExecuteWithinBudget \/ Settle \/ Resume \/ Cancel \/ Delete

\* every capability call settles, and the job queue runs the continuation
\* of every call whose await has settled
SpecLive ==
  /\ Init
  /\ [][NextLive]_vars
  /\ \A e \in CallIds : WF_vars(SettleCall(e))
  /\ \A e \in CallIds : WF_vars(ExecuteTaskChainResume(e))

\* call e was made on a chain that was in the map
OnExistingChain(e) == calls[e].pc # "idle" /\ calls[e].message # NotFound

\* C36: when every capability call settles, every executeTaskChain call on
\* an existing chain resolves or rejects; in the step in which it does, the
\* status of its chain becomes `completed` or `failed`; and a chain is
\* `running` only while a call on it is in flight.
C36_EveryCallSettles ==
  /\ \A e \in CallIds :
       (e \in InFlightCalls) ~> (calls[e].pc \in {"resolved", "rejected"})
  /\ [][\A e \in InFlightCalls :
           calls'[e].pc \in {"resolved", "rejected"} =>
             chain'[calls[e].chainId].status \in {"completed", "failed"}]_vars
  /\ [](\A c \in ChainIds : chain[c].status = "running" => InFlightOn(c) # {})

\* a call has just settled on a chain that was deleted while it ran, after
\* the chain had been cancelled
C36_Witness ==
  /\ ret.op = "resume"
  /\ calls[ret.value].pc \in {"resolved", "rejected"}
  /\ OnExistingChain(ret.value)
  /\ ret.id \notin taskChains
  /\ cancelled[ret.id].done
  /\ chain[ret.id].status \in {"completed", "failed"}

\* C37: after a processQuery call whose provider call failed, the history
\* holds no turn of that call: the user turn it appended before the await is
\* not left in it.
C37_FailedQueryLeavesNoTurn ==
  \A q \in QueryIds :
    queries[q].pc = "rejected" =>
      \A k \in 1..Len(conversationHistory) :
        conversationHistory[k] # Turn("user", QueryOf(q))

\* the change events of document d, by their place in the history
ChangesOf(d) == {k \in 1..Len(changes) : changes[k].document = d}

\* change k of document d begins a burst: no earlier change of d is less
\* than DebounceDelay before it
BeginsBurst(d, k) ==
  \A j \in ChangesOf(d) : j < k => changes[k].at - changes[j].at >= DebounceDelay

AnalysesOf(d) == {n \in 1..Len(analyses) : analyses[n].document = d}

\* C38: the analysis of a changed file document is debounced: the
\* analyzeDocument call that a change event asked for is made only when no
\* change event of the document followed it by less than one second (it was
\* the last of its burst), so that there are never more calls for a document
\* than bursts of change events on it.
C38_AnalysisIsDebounced ==
  \A d \in Documents :
    /\ \A n \in AnalysesOf(d) : \A k \in ChangesOf(d) :
         k > analyses[n].change =>
           changes[k].at - changes[analyses[n].change].at >= DebounceDelay
    /\ Cardinality(AnalysesOf(d))
         <= Cardinality({k \in ChangesOf(d) : BeginsBurst(d, k)})

====
